---- MODULE Spec2Model ----
(***************************************************************************)
(* A model of the ComfyUI image-to-image runner: comfyrun.py (the          *)
(* orchestration functions and comfyrun.main) and predict.py               *)
(* (Predictor.predict, which runs the same functions as a library).        *)
(*                                                                         *)
(* Time is an integer clock `now`; float seconds are abstracted to ticks.  *)
(* The remote server is an opaque HTTP service: every response (status,    *)
(* body) is chosen nondeterministically from small sets.                   *)
(***************************************************************************)
EXTENDS Integers, Sequences, FiniteSets, TLC

(***************************************************************************)
(* Bounds of the model.                                                    *)
(***************************************************************************)
MaxNow == 1          \* the clock ticks freely up to MaxNow (and always up to a pending deadline)
MaxTimeout == 2      \* --timeout is drawn from -1 .. MaxTimeout
MaxInterval == 1     \* --interval is drawn from -1 .. MaxInterval
MaxImgs == 2         \* a history response lists at most MaxImgs artifacts
PredictTimeout == 3  \* ticks standing for timeout=300.0 in Predictor.predict
MaxNodes == 3        \* a generated workflow graph has 1 .. MaxNodes nodes
SetupTimeout == 4    \* ticks standing for the 60 seconds of Predictor.setup

(***************************************************************************)
(* Program constants.                                                      *)
(***************************************************************************)
DEFAULT_FALLBACK_NODE == "40"
PredictInterval == 1
SetupSleep == 1
PredictOutDir == "ComfyUI/output"
MainDefaultOutDir == "comfyui/output"

Runs == {1, 2}
Dirs == {PredictOutDir, MainDefaultOutDir}
Names == {"out.png", "tmp.png"}
Contents == {"b1", "b2"}
Tokens == <<"u1", "u2">>
InputName == "in.png"

(***************************************************************************)
(* HTTP.  requests' Response.raise_for_status raises HTTPError for 4xx and *)
(* 5xx only; a final 3xx answer (304, or a redirect without Location) is   *)
(* returned to the caller like a 2xx one.                                  *)
(***************************************************************************)
AllStatuses == {200, 304, 404, 500}

Is2xx(s) == 200 <= s /\ s <= 299

RaisesForStatus(s) == 400 <= s /\ s < 600

(***************************************************************************)
(* The workflow graph: a dict node_id -> node, in insertion order, as a    *)
(* sequence of node records.  A node's inputs dict is a function from the  *)
(* keys the program writes to a value, NoVal for "key absent"; hasInputs   *)
(* tells a node without an 'inputs' key from one with an empty dict.       *)
(* class_type "" stands for a missing class_type.                          *)
(***************************************************************************)
NoVal == "<absent>"
NoNode == "<none>"
Keys == {"image", "noise_seed", "num_steps", "cfg_scale", "sampler_name", "scheduler"}
NoInputs == [k \in Keys |-> NoVal]

Node(id, ct, has, ins, outs) ==
    [id |-> id, class_type |-> ct, hasInputs |-> has, inputs |-> ins, outputs |-> outs]

\* 'RandomNoise' in ctype  (substring test)
ContainsRandomNoise(ct) == ct \in {"RandomNoise", "RandomNoiseAdvanced"}

\* Mutant: ctype == 'KSampler' in place of the substring test.
IsKSampler(ct) == ct = "KSampler"

\* 'KSampler' in ctype  (substring test)
ContainsKSampler(ct) == ct \in {"KSampler", "KSamplerAdvanced"}

\* inputs = node.setdefault('inputs', {}); inputs[k] = v
SetInput(n, k, v) == [n EXCEPT !.hasInputs = TRUE, !.inputs[k] = v]

\* Mutant: node['inputs'] = {} in place of setdefault.
ResetInputs(n) == [n EXCEPT !.hasInputs = TRUE, !.inputs = NoInputs]

\* node.setdefault('inputs', {})
SetDefaultInputs(n) == [n EXCEPT !.hasInputs = TRUE]

\* Mutant: the loop stops after the first LoadImage node (a stray break).
InjectFirstLoader(wf, filename) ==
    [i \in DOMAIN wf |->
        IF wf[i].class_type = "LoadImage" /\ \A j \in 1..(i-1) : wf[j].class_type # "LoadImage"
        THEN SetInput(wf[i], "image", filename)
        ELSE wf[i]]

\* Mutant: the class_type test is missing, every node gets the image.
InjectEveryNode(wf, filename) == [i \in DOMAIN wf |-> SetInput(wf[i], "image", filename)]

\* Mutant: the caller's original file name (inp.name) is injected, not the
\* name given.
InjectOriginalName(wf, filename) ==
    [i \in DOMAIN wf |->
        IF wf[i].class_type = "LoadImage" THEN SetInput(wf[i], "image", "in.png") ELSE wf[i]]

inject_input_image(wf, filename) ==
    [i \in DOMAIN wf |->
        IF wf[i].class_type = "LoadImage"
        THEN SetInput(wf[i], "image", filename)
        ELSE wf[i]]

InjectNode(n, seed, steps, scale, sampler) ==
    LET n0 == SetDefaultInputs(n)
        n1 == IF seed # NoVal /\ ContainsRandomNoise(n.class_type)
              THEN SetInput(n0, "noise_seed", seed) ELSE n0
        n2 == IF ContainsKSampler(n.class_type) /\ steps # NoVal
              THEN SetInput(n1, "num_steps", steps) ELSE n1
        n3 == IF ContainsKSampler(n.class_type) /\ scale # NoVal
              THEN SetInput(n2, "cfg_scale", scale) ELSE n2
        n4 == IF ContainsKSampler(n.class_type) /\ sampler # NoVal
              THEN SetInput(n3, "sampler_name", sampler) ELSE n3
    IN  n4

inject_parameters(wf, seed, steps, scale, sampler) ==
    [i \in DOMAIN wf |-> InjectNode(wf[i], seed, steps, scale, sampler)]

\* Mutant: one loop that returns the first node that is a SaveImage or has
\* an IMAGE output.
FirstSaverOrEmitter(wf) ==
    LET hits == {i \in DOMAIN wf : wf[i].class_type = "SaveImage" \/ "IMAGE" \in wf[i].outputs}
    IN  IF hits # {} THEN wf[CHOOSE i \in hits : \A j \in hits : i <= j].id ELSE NoNode

\* The node id find_output_node returns, NoNode when it raises RuntimeError.
find_output_node(wf) ==
    LET savers == {i \in DOMAIN wf : wf[i].class_type = "SaveImage"}
        emitters == {i \in DOMAIN wf : "IMAGE" \in wf[i].outputs}
        First(S) == CHOOSE i \in S : \A j \in S : i <= j
    IN  IF savers # {} THEN wf[First(savers)].id
        ELSE IF emitters # {} THEN wf[First(emitters)].id
        ELSE NoNode

\* The workflow files a run may load.
GraphFull ==
    << Node("1", "LoadImage", TRUE, [NoInputs EXCEPT !["image"] = "old.png"], {}),
       Node("2", "RandomNoise", TRUE, NoInputs, {}),
       Node("3", "KSampler", FALSE, NoInputs, {"LATENT"}),
       Node("4", "SaveImage", TRUE, NoInputs, {}) >>

GraphEmitter ==
    << Node("1", "LoadImage", FALSE, NoInputs, {"IMAGE"}),
       Node("2", "VAEDecode", FALSE, NoInputs, {"IMAGE"}) >>

GraphBare ==
    << Node("7", "KSamplerAdvanced", FALSE, NoInputs, {"LATENT"}) >>

AllGraphs == {GraphFull, GraphEmitter, GraphBare}

\* Generated workflow files: every sequence of 1 .. MaxNodes nodes of the
\* kinds below, with the keys "1", "2", ... in file order.
NodeKinds ==
    { Node("", "LoadImage", TRUE, [NoInputs EXCEPT !["image"] = "old.png"], {"IMAGE"}),
      Node("", "LoadImage", FALSE, NoInputs, {}),
      Node("", "RandomNoise", TRUE, [NoInputs EXCEPT !["noise_seed"] = "1"], {}),
      Node("", "KSampler", FALSE, NoInputs, {"LATENT"}),
      Node("", "KSamplerAdvanced", TRUE, [NoInputs EXCEPT !["num_steps"] = "5"], {"LATENT"}),
      Node("", "SaveImage", TRUE, NoInputs, {}),
      Node("", "VAEDecode", FALSE, NoInputs, {"IMAGE"}) }

GenGraphs ==
    UNION { {[i \in 1..k |-> [f[i] EXCEPT !.id = ToString(i)]] : f \in [1..k -> NodeKinds]}
            : k \in 1..MaxNodes }

\* (seed, steps, scale, sampler) as given on the command line; NoVal is None.
NoParams == [seed |-> NoVal, steps |-> NoVal, scale |-> NoVal, sampler |-> NoVal]
AllParams == {NoParams, [seed |-> "42", steps |-> "20", scale |-> "7.5", sampler |-> "euler"]}

(***************************************************************************)
(* Artifact references and remote response bodies.  A field that is        *)
(* absent or empty (falsy in Python) is "".                                *)
(***************************************************************************)
Artifact(f, t, sub) == [filename |-> f, type |-> t, subfolder |-> sub]

Artifacts ==
    { Artifact("out.png", "output", ""), Artifact("out.png", "", "sub"),
      Artifact("tmp.png", "temp", "sub"), Artifact("tmp.png", "output", "sub") }

SeqsUpTo(S, n) == UNION {[1..k -> S] : k \in 0..n}

ArtLists == SeqsUpTo(Artifacts, MaxImgs)

\* /prompt answers: a body that is JSON or not, with optional prompt_id and id.
AllSubmitBodies ==
    [json : {TRUE}, prompt_id : {"", "p1"}, id : {"", "i1"}]
        \cup {[json |-> FALSE, prompt_id |-> "", id |-> ""]}

\* /history/{id} answers: a body that is JSON or not; images is the flattened
\* [img for node in outs.values() for img in node.get('images', [])].
AllPollBodies == [json : {TRUE}, images : ArtLists] \cup {[json |-> FALSE, images |-> <<>>]}

(***************************************************************************)
(* The filesystem: for every directory whether it exists and, per file     *)
(* name, the file (owner: the run that wrote it, 0 for a file older than   *)
(* every run; body: its bytes) or NoFile.                                  *)
(***************************************************************************)
NoFile == [owner |-> -1, body |-> ""]
EmptyFiles == [n \in Names |-> NoFile]
MissingDir == [exists |-> FALSE, files |-> EmptyFiles]
EmptyDir == [exists |-> TRUE, files |-> EmptyFiles]
StaleDir == [exists |-> TRUE, files |-> [EmptyFiles EXCEPT !["out.png"] = [owner |-> 0, body |-> "b1"]]]

IsEmptyDir(d) == d.exists /\ \A n \in Names : d.files[n] = NoFile

VARIABLES
    run,    \* per run: the position and the locals of comfyrun.main / Predictor.predict
    fs,     \* the local filesystem (output directories)
    now     \* the wall clock, time.time()

vars == <<run, fs, now>>

(***************************************************************************)
(* The inputs and the remote's answers.  With one run they range over the  *)
(* full sets; with two concurrent runs over reduced sets (the plain        *)
(* success and failure answers), which keeps the product of two runs       *)
(* explorable.                                                             *)
(***************************************************************************)
Concurrent == \A q \in Runs : run[q].caller # "off"

Statuses == IF Concurrent THEN {200, 500} ELSE AllStatuses

RunGraphs == IF Concurrent THEN {GraphFull} ELSE AllGraphs

RunParams == IF Concurrent THEN {NoParams} ELSE AllParams

SubmitBodies ==
    IF Concurrent THEN {[json |-> TRUE, prompt_id |-> "p1", id |-> ""]} ELSE AllSubmitBodies

PollBodies ==
    IF Concurrent THEN [json : {TRUE}, images : SeqsUpTo(Artifacts, 1)] ELSE AllPollBodies

\* /view answers: the status and the bytes of the body.
ViewResponses == [status : Statuses, content : Contents]

(***************************************************************************)
(* A run's record.  caller is "main" (comfyrun.main), "predict"            *)
(* (Predictor.predict) or "off" (no such run).  inputFile and wfFile are   *)
(* the state of the two local files the run reads.  The fields from trace  *)
(* on are history: the steps entered, the kinds of request issued, a bit   *)
(* flipped by every request, whether an upload/submit/history response was *)
(* not 2xx and whether a request followed one, whether a history request   *)
(* was issued at or after the deadline, whether timeout was <= 0, the      *)
(* history responses seen, the latest upload/submit/history request, the   *)
(* response to the submit request (kept until await_completion is          *)
(* called), the view requests and responses, and, for caller "setup"       *)
(* (Predictor.setup), the outcome of the latest readiness probe and        *)
(* whether any probe was answered 200.                                     *)
(***************************************************************************)
Request(op, name, prompt, outputs, job) ==
    [op |-> op, name |-> name, prompt |-> prompt, outputs |-> outputs, job |-> job]

NoRequest == Request("", "", <<>>, <<>>, "")

\* The outcome of one readiness probe: requests.get raised, or answered with
\* a status.  NoProbe: no probe made yet.
ProbeAnswers == {[raised |-> TRUE, status |-> 0]} \cup [raised : {FALSE}, status : AllStatuses]

NoProbe == [raised |-> FALSE, status |-> 0]

\* No /prompt response: none received yet, or none kept any longer.
NoResponse == [status |-> 0, body |-> [json |-> FALSE, prompt_id |-> "", id |-> ""]]

NewRun(c, inp, wff) ==
    [caller |-> c, inputFile |-> inp, wfFile |-> wff,
     pc |-> "Start", err |-> "", failedAt |-> "",
     outDir |-> "", uploadName |-> "", wf |-> <<>>, outNode |-> "", jobId |-> "",
     interval |-> 0, deadline |-> 0, images |-> <<>>, result |-> "",
     trace |-> <<>>, ops |-> {}, flip |-> 0, badResp |-> FALSE, reqAfterBad |-> FALSE,
     lateReq |-> FALSE, nonPosTimeout |-> FALSE,
     sawArt |-> FALSE, firstArt |-> <<>>, sawOther |-> FALSE,
     lastReq |-> NoRequest, submitResp |-> NoResponse, views |-> <<>>, viewResps |-> <<>>,
     probe |-> NoProbe, saw200 |-> FALSE]

OffRun == [NewRun("off", FALSE, "missing") EXCEPT !.pc = "Off"]

StartRuns == {NewRun(c, inp, wff) : c \in {"main", "predict"}, inp \in BOOLEAN,
                                    wff \in {"ok", "malformed", "missing"}}

\* One run, any caller, any state of the local files and directories.
Init ==
    /\ run \in [Runs -> StartRuns \cup {OffRun}]
    /\ run[1] # OffRun /\ run[2] = OffRun
    /\ fs \in {[d \in Dirs |-> x] : x \in {MissingDir, EmptyDir, StaleDir}}
    /\ now = 0

\* Two concurrent runs, each of either caller, with their local files in place.
InitPair ==
    /\ run \in [Runs -> {NewRun(c, TRUE, "ok") : c \in {"main", "predict"}}]
    /\ fs \in {[d \in Dirs |-> x] : x \in {EmptyDir, StaleDir}}
    /\ now = 0

Set(r, s) == run' = [run EXCEPT ![r] = s]

Enter(s, step) == [s EXCEPT !.trace = Append(@, step)]

\* An exception leaves the run: nothing in main or predict catches it
\* (predict's except clause logs and re-raises).  The locals of
\* await_completion end with it.
Fail(s, e) ==
    [s EXCEPT !.pc = "Failed", !.err = e, !.failedAt = s.trace[Len(s.trace)],
              !.interval = 0, !.deadline = 0]

\* requests.get / requests.post: one request of kind op, answered with status st.
Issue(s, op, st) ==
    [s EXCEPT !.ops = @ \cup {op}, !.flip = 1 - @,
              !.reqAfterBad = @ \/ s.badResp,
              !.badResp = @ \/ (op # "view" /\ ~Is2xx(st))]

(***************************************************************************)
(* The steps of a run, in program order.                                   *)
(***************************************************************************)

\* main 166-168, predict 62-66: if not inp.is_file(): raise FileNotFoundError
CheckInput(r) ==
    /\ run[r].pc = "Start"
    /\ LET s == Enter(run[r], "check_input")
       IN  Set(r, IF s.inputFile THEN [s EXCEPT !.pc = "InputOk"]
                  ELSE Fail(s, "FileNotFoundError:input"))
    /\ UNCHANGED <<fs, now>>

\* predict 69-74: if not wf_path.is_file(): raise FileNotFoundError.
\* comfyrun.main has no such check.
CheckWorkflow(r) ==
    /\ run[r].caller = "predict" /\ run[r].pc = "InputOk"
    /\ LET s == Enter(run[r], "check_workflow")
       IN  Set(r, IF s.wfFile # "missing" THEN [s EXCEPT !.pc = "WorkflowOk"]
                  ELSE Fail(s, "FileNotFoundError:workflow"))
    /\ UNCHANGED <<fs, now>>

\* The output directory of a run: --output-dir (any path) for main, the fixed
\* Path("ComfyUI/output") for predict.
OutDirs(c) == IF c = "main" THEN Dirs ELSE {PredictOutDir}

\* Mutant: the directory is created but not cleared first.
MkdirOnly(f, d) == [f EXCEPT ![d].exists = TRUE]

\* shutil.rmtree(out_dir): the directory and everything in it are gone.
rmtree(f, d) == [f EXCEPT ![d] = MissingDir]

\* out_dir.mkdir(parents=True, exist_ok=True)
mkdir(f, d) == [f EXCEPT ![d].exists = TRUE]

\* Mutant: mkdir indented into the if-branch, so a missing directory stays missing.
PrepareOnlyExisting(f, d) == IF f[d].exists THEN mkdir(rmtree(f, d), d) ELSE f

\* if out_dir.exists(): shutil.rmtree(out_dir);  out_dir.mkdir(parents=True, exist_ok=True)
prepare_output_dir(f, d) == mkdir(IF f[d].exists THEN rmtree(f, d) ELSE f, d)

\* The position from which the caller prepares the output directory.
BeforePrepare(c) == IF c = "main" THEN "InputOk" ELSE "WorkflowOk"

Prepare(r) ==
    /\ run[r].caller # "off" /\ run[r].pc = BeforePrepare(run[r].caller)
    /\ \E d \in OutDirs(run[r].caller) :
          /\ fs' = prepare_output_dir(fs, d)
          /\ Set(r, [Enter(run[r], "prepare") EXCEPT !.pc = "Prepared", !.outDir = d])
    /\ UNCHANGED now

\* f"{uuid.uuid4().hex}_{inp.name}": uuid4 is a token no run has drawn before;
\* the r-th run to upload draws the r-th token.
UsedNames == {run[q].uploadName : q \in Runs} \ {""}

UniqueNames == {Tokens[Cardinality(UsedNames) + 1] \o "_" \o InputName}

\* What a step does with the status of its response: resp.raise_for_status()
StatusOutcome(st) == IF RaisesForStatus(st) THEN "raise" ELSE "go"

\* Mutant: the upload is made before the output directory is prepared.
BeforeUploadEarly(c) == BeforePrepare(c)

\* The position from which the caller uploads: after prepare_output_dir.
BeforeUpload(c) == "Prepared"

Upload(r) ==
    /\ run[r].caller # "off" /\ run[r].pc = BeforeUpload(run[r].caller)
    /\ \E name \in UniqueNames, st \in Statuses :
          LET s == Issue([Enter(run[r], "upload") EXCEPT
                             !.uploadName = name,
                             !.lastReq = Request("upload", name, <<>>, <<>>, "")],
                         "upload", st)
          IN  Set(r, IF StatusOutcome(st) = "raise" THEN Fail(s, "HTTPError")
                     ELSE [s EXCEPT !.pc = "Uploaded"])
    /\ UNCHANGED <<fs, now>>

\* load_workflow: path.open raises FileNotFoundError, json.load raises on bad JSON.
LoadWorkflow(r) ==
    /\ run[r].pc = "Uploaded"
    /\ LET s == Enter(run[r], "load_workflow")
       IN  \/ /\ s.wfFile = "missing"
              /\ Set(r, Fail(s, "FileNotFoundError:workflow"))
           \/ /\ s.wfFile = "malformed"
              /\ Set(r, Fail(s, "JSONDecodeError"))
           \/ /\ s.wfFile = "ok"
              /\ \E g \in RunGraphs : Set(r, [s EXCEPT !.pc = "Loaded", !.wf = g])
    /\ UNCHANGED <<fs, now>>

InjectImage(r) ==
    /\ run[r].pc = "Loaded"
    /\ LET s == Enter(run[r], "inject_image")
       IN  Set(r, [s EXCEPT !.pc = "ImageInjected",
                            !.wf = inject_input_image(s.wf, s.uploadName)])
    /\ UNCHANGED <<fs, now>>

\* main passes args.seed, args.steps, args.scale, args.sampler; predict passes nothing.
ParamsOf(c) == IF c = "main" THEN RunParams ELSE {NoParams}

InjectParams(r) ==
    /\ run[r].pc = "ImageInjected"
    /\ \E p \in ParamsOf(run[r].caller) :
          LET s == Enter(run[r], "inject_params")
          IN  Set(r, [s EXCEPT !.pc = "Patched",
                               !.wf = inject_parameters(s.wf, p.seed, p.steps, p.scale, p.sampler)])
    /\ UNCHANGED <<fs, now>>

\* --output-node as given to main ("" when not given); predict has no override.
OutputNodeArgs(c) == IF c = "main" /\ ~Concurrent THEN {"", "9"} ELSE {""}

\* Mutant: main without the try/except around find_output_node.
ResolveStrict(c, arg, wf) == IF arg # "" THEN arg ELSE find_output_node(wf)

\* main 180-186 / predict 100: the node id to submit, NoNode when the
\* RuntimeError of find_output_node propagates.
ResolveOutput(c, arg, wf) ==
    IF arg # "" THEN arg
    ELSE IF find_output_node(wf) # NoNode THEN find_output_node(wf)
    ELSE IF c = "main" THEN DEFAULT_FALLBACK_NODE
    ELSE NoNode

Resolve(r) ==
    /\ run[r].pc = "Patched"
    /\ \E arg \in OutputNodeArgs(run[r].caller) :
          LET s == Enter(run[r], "resolve")
              node == ResolveOutput(s.caller, arg, s.wf)
          IN  Set(r, IF node = NoNode THEN Fail(s, "RuntimeError:no_output")
                     ELSE [s EXCEPT !.pc = "Resolved", !.outNode = node])
    /\ UNCHANGED <<fs, now>>

\* pid = data.get('prompt_id') or data.get('id')
PromptIdOf(body) == IF body.prompt_id # "" THEN body.prompt_id ELSE body.id

\* queue_workflow: json={'prompt': workflow, 'outputs': [output_node]}.
\* Neither wf nor out_node is read after this call; the run's record forgets them.
Submit(r) ==
    /\ run[r].pc = "Resolved"
    /\ \E st \in Statuses, body \in SubmitBodies :
          LET s == Issue([Enter(run[r], "submit") EXCEPT
                             !.lastReq = Request("submit", "", run[r].wf, <<run[r].outNode>>, ""),
                             !.submitResp = [status |-> st, body |-> body],
                             !.wf = <<>>, !.outNode = ""],
                         "submit", st)
          IN  Set(r, IF StatusOutcome(st) = "raise" THEN Fail(s, "HTTPError")
                     ELSE IF ~body.json THEN Fail(s, "JSONDecodeError")
                     ELSE IF PromptIdOf(body) = "" THEN Fail(s, "RuntimeError:no_prompt_id")
                     ELSE [s EXCEPT !.pc = "Submitted", !.jobId = PromptIdOf(body)])
    /\ UNCHANGED <<fs, now>>

(***************************************************************************)
(* await_completion                                                        *)
(***************************************************************************)

\* --interval and --timeout of main (type=float, any sign); predict passes
\* interval=1.0, timeout=300.0.
Intervals(c) ==
    IF c # "main" THEN {PredictInterval}
    ELSE IF Concurrent THEN {0} ELSE -1..MaxInterval

Timeouts(c) ==
    IF c # "main" THEN {PredictTimeout}
    ELSE IF Concurrent THEN {1} ELSE -1..MaxTimeout

\* deadline = time.time() + timeout
AwaitStart(r) ==
    /\ run[r].pc = "Submitted"
    /\ \E iv \in Intervals(run[r].caller), to \in Timeouts(run[r].caller) :
          Set(r, [Enter(run[r], "poll") EXCEPT !.pc = "AwaitLoop", !.interval = iv,
                                               !.submitResp = NoResponse,
                                               !.deadline = now + to,
                                               !.nonPosTimeout = (to <= 0)])
    /\ UNCHANGED <<fs, now>>

\* The clock saturates at Horizon, a time later than every deadline and every
\* wake-up of a run.
Horizon == MaxNow + MaxTimeout + PredictTimeout + MaxInterval + PredictInterval + 1

\* time.sleep(interval): the clock when the sleeper wakes.
Sleep(t, interval) == IF t + interval > Horizon THEN Horizon ELSE t + interval

\* Mutant: the loop condition admits the deadline itself.
UpToDeadline(t, deadline) == t <= deadline

\* Mutant: the loop never looks at the deadline (while True).
NoDeadline(t, deadline) == TRUE

\* while time.time() < deadline
BeforeDeadline(t, deadline) == t < deadline

\* output_imgs = [i for i in images if i.get('type') == 'output']
OutputImgs(images) == SelectSeq(images, LAMBDA i : i.type = "output")

\* Mutant: the artifacts are returned as listed, without the preference.
AllImages(images) == images

\* Mutant: only the 'output' artifacts are returned, also when there are none.
OnlyOutput(images) == OutputImgs(images)

\* return output_imgs or images
PreferOutput(images) == IF OutputImgs(images) # <<>> THEN OutputImgs(images) ELSE images

\* What one pass of the loop body does with the response (st, body):
\* raise_for_status, resp.json(), "if images: return", else time.sleep(interval)
\* (time.sleep raises ValueError for a negative length).
PollOutcome(st, body, interval) ==
    IF RaisesForStatus(st) THEN "HTTPError"
    ELSE IF ~body.json THEN "JSONDecodeError"
    ELSE IF body.images # <<>> THEN "return"
    ELSE IF interval < 0 THEN "ValueError"
    ELSE "sleep"

\* History of the responses await_completion has seen.
Observe(s, st, body) ==
    [s EXCEPT !.sawArt = @ \/ body.images # <<>>,
              !.firstArt = IF ~s.sawArt /\ body.images # <<>> THEN body.images ELSE @,
              !.sawOther = @ \/ RaisesForStatus(st) \/ ~body.json \/ body.images # <<>>]

\* One evaluation of the loop condition and, when it holds, one pass of the body.
PollIteration(r) ==
    /\ run[r].pc = "AwaitLoop"
    /\ IF ~BeforeDeadline(now, run[r].deadline)
       THEN /\ Set(r, Fail(run[r], "TimeoutError"))
            /\ UNCHANGED now
       ELSE \E st \in Statuses, body \in PollBodies :
               LET s == Observe(Issue([run[r] EXCEPT
                                          !.lateReq = @ \/ now >= run[r].deadline,
                                          !.lastReq = Request("poll", "", <<>>, <<>>, run[r].jobId)],
                                      "poll", st), st, body)
                   o == PollOutcome(st, body, s.interval)
               IN  /\ Set(r, IF o = "return"
                             THEN [s EXCEPT !.pc = "Polled", !.images = PreferOutput(body.images),
                                            !.interval = 0, !.deadline = 0]
                             ELSE IF o = "sleep" THEN s
                             ELSE Fail(s, o))
                   /\ now' = IF o = "sleep" THEN Sleep(now, s.interval) ELSE now
    /\ UNCHANGED fs

(***************************************************************************)
(* download_output                                                         *)
(***************************************************************************)

\* The query of the first request: filename always, type and subfolder when truthy.
ViewParams(image) ==
    [filename |-> image.filename, type |-> image.type, subfolder |-> image.subfolder]

\* Mutant: every 404 is retried, with or without a type parameter.
RetryAny404(status, params) == status = 404

\* if resp.status_code == 404 and 'type' in params
ShouldRetry(status, params) == status = 404 /\ params.type # ""

\* params.pop('type')
WithoutType(params) == [params EXCEPT !.type = ""]

\* out_file.write_bytes(resp.content)
WriteFile(f, d, name, owner, content) ==
    [f EXCEPT ![d].files[name] = [owner |-> owner, body |-> content]]

\* images[0] of main 189 / predict 114
FirstImage(images) == images[1]

Download(r) ==
    /\ run[r].pc = "Polled"
    /\ \E r1 \in ViewResponses, r2 \in ViewResponses :
          LET image == FirstImage(run[r].images)
              p1 == ViewParams(image)
              retry == ShouldRetry(r1.status, p1)
              last == IF retry THEN r2 ELSE r1
              s0 == Issue(Enter(run[r], "download"), "view", r1.status)
              s == [s0 EXCEPT !.views = IF retry THEN <<p1, WithoutType(p1)>> ELSE <<p1>>,
                              !.viewResps = IF retry THEN <<r1, r2>> ELSE <<r1>>]
          IN  IF StatusOutcome(last.status) = "raise"
              THEN Set(r, Fail(s, "HTTPError")) /\ UNCHANGED fs
              ELSE IF ~fs[s.outDir].exists
              THEN Set(r, Fail(s, "FileNotFoundError:write")) /\ UNCHANGED fs
              ELSE /\ fs' = WriteFile(fs, s.outDir, image.filename, r, last.content)
                   /\ Set(r, [s EXCEPT !.pc = "Done", !.result = image.filename])
    /\ UNCHANGED now

\* The wall clock advances by itself.
Tick ==
    /\ \/ now < MaxNow
       \/ \E r \in Runs : run[r].pc \in {"AwaitLoop", "SetupLoop"} /\ now < run[r].deadline
    /\ now < Horizon
    /\ now' = now + 1
    /\ UNCHANGED <<run, fs>>

Step(r) ==
    \/ CheckInput(r)
    \/ CheckWorkflow(r)
    \/ Prepare(r)
    \/ Upload(r)
    \/ LoadWorkflow(r)
    \/ InjectImage(r)
    \/ InjectParams(r)
    \/ Resolve(r)
    \/ Submit(r)
    \/ AwaitStart(r)
    \/ PollIteration(r)
    \/ Download(r)

Next == Tick \/ \E r \in Runs : Step(r)

Spec == Init /\ [][Next]_vars

\* Two runs at once: two processes running comfyrun.main, two invocations of
\* Predictor.predict, or one of each.
SpecPair == InitPair /\ [][Next]_vars

(***************************************************************************)
(* await_completion on its own: one run of either caller, taken up at the  *)
(* call of await_completion (after a submission answered 200 with the job  *)
(* id p1, for the workflow GraphFull and no parameters).  The loop keeps   *)
(* running (the program is sequential and blocking, and every request is   *)
(* answered) and the wall clock keeps advancing.                           *)
(***************************************************************************)
SubmittedRun(c, d) ==
    [NewRun(c, TRUE, "ok") EXCEPT
        !.pc = "Submitted", !.outDir = d, !.uploadName = "u1_" \o InputName, !.jobId = "p1",
        !.trace = IF c = "main"
                  THEN <<"check_input", "prepare", "upload", "load_workflow",
                         "inject_image", "inject_params", "resolve", "submit">>
                  ELSE <<"check_input", "check_workflow", "prepare", "upload", "load_workflow",
                         "inject_image", "inject_params", "resolve", "submit">>,
        !.ops = {"upload", "submit"},
        !.submitResp = [status |-> 200, body |-> [json |-> TRUE, prompt_id |-> "p1", id |-> ""]],
        !.lastReq = Request("submit", "",
                            inject_parameters(inject_input_image(GraphFull, "u1_" \o InputName),
                                              NoVal, NoVal, NoVal, NoVal),
                            <<"4">>, "")]

InitAwait ==
    /\ \E c \in {"main", "predict"} : \E d \in OutDirs(c) :
          run = [r \in Runs |-> IF r = 1 THEN SubmittedRun(c, d) ELSE OffRun]
    /\ fs = [d \in Dirs |-> EmptyDir]
    /\ now \in 0..MaxNow

Await(r) == AwaitStart(r) \/ PollIteration(r)

NextAwait == Tick \/ \E r \in Runs : Await(r)

AwaitSpec ==
    InitAwait /\ [][NextAwait]_vars /\ WF_vars(Tick) /\ \A r \in Runs : WF_vars(Await(r))

(***************************************************************************)
(* The graph operations on their own: one run of either caller, taken up   *)
(* after load_workflow has returned (the upload answered 200), for every   *)
(* generated workflow file; the run patches the graph and resolves the     *)
(* output node.                                                            *)
(***************************************************************************)
LoadedRun(c, d, g) ==
    [NewRun(c, TRUE, "ok") EXCEPT
        !.pc = "Loaded", !.outDir = d, !.uploadName = "u1_" \o InputName, !.wf = g,
        !.trace = IF c = "main"
                  THEN <<"check_input", "prepare", "upload", "load_workflow">>
                  ELSE <<"check_input", "check_workflow", "prepare", "upload", "load_workflow">>,
        !.ops = {"upload"}, !.flip = 1,
        !.lastReq = Request("upload", "u1_" \o InputName, <<>>, <<>>, "")]

InitGraph ==
    /\ \E c \in {"main", "predict"} : \E g \in GenGraphs \cup AllGraphs :
          run = [r \in Runs |-> IF r = 1 THEN LoadedRun(c, PredictOutDir, g) ELSE OffRun]
    /\ fs = [d \in Dirs |-> EmptyDir]
    /\ now = 0

NextGraph == \E r \in Runs : InjectImage(r) \/ InjectParams(r) \/ Resolve(r)

GraphSpec == InitGraph /\ [][NextGraph]_vars

(***************************************************************************)
(* Predictor.setup: the readiness probe, taken up after subprocess.Popen   *)
(* has returned.  The loop keeps running (sequential, blocking code; every *)
(* probe ends, with an answer or an exception, requests.get has a timeout) *)
(* and the wall clock keeps advancing.                                     *)
(***************************************************************************)
SetupRun == [NewRun("setup", TRUE, "ok") EXCEPT !.pc = "SetupStart"]

InitSetup ==
    /\ run = [r \in Runs |-> IF r = 1 THEN SetupRun ELSE OffRun]
    /\ fs = [d \in Dirs |-> MissingDir]
    /\ now \in 0..MaxNow

\* deadline = time.time() + 60
SetupStart(r) ==
    /\ run[r].pc = "SetupStart"
    /\ Set(r, [Enter(run[r], "probe") EXCEPT !.pc = "SetupLoop", !.deadline = now + SetupTimeout])
    /\ UNCHANGED <<fs, now>>

\* Mutant: 'if r.status_code:' in place of 'if r.status_code == 200:'.
ProbeAnyStatus(a) == IF a.raised THEN "sleep" ELSE "return"

\* What one pass of the loop body does with the outcome of the probe:
\* return on status 200, sleep in the except clause, else go round again.
ProbeOutcome(a) ==
    IF a.raised THEN "sleep"
    ELSE IF a.status = 200 THEN "return"
    ELSE "again"

\* One evaluation of 'while time.time() < deadline' and, when it holds, one
\* pass of the body; RuntimeError when it does not.
Probe(r) ==
    /\ run[r].pc = "SetupLoop"
    /\ IF ~(now < run[r].deadline)
       THEN /\ Set(r, [run[r] EXCEPT !.pc = "Failed", !.err = "RuntimeError:not_ready",
                                     !.failedAt = "probe"])
            /\ UNCHANGED now
       ELSE \E a \in ProbeAnswers :
               LET s == [Issue(run[r], "probe", a.status) EXCEPT
                            !.probe = a,
                            !.saw200 = @ \/ (~a.raised /\ a.status = 200),
                            !.lateReq = @ \/ now >= run[r].deadline]
                   o == ProbeOutcome(a)
               IN  /\ Set(r, IF o = "return" THEN [s EXCEPT !.pc = "Ready"] ELSE s)
                   /\ now' = IF o = "sleep" THEN Sleep(now, SetupSleep) ELSE now
    /\ UNCHANGED fs

Setup(r) == SetupStart(r) \/ Probe(r)

NextSetup == Tick \/ \E r \in Runs : Setup(r)

SetupSpec ==
    InitSetup /\ [][NextSetup]_vars /\ WF_vars(Tick) /\ \A r \in Runs : WF_vars(Setup(r))

(***************************************************************************)
(* Properties                                                              *)
(***************************************************************************)
Range(q) == {q[i] : i \in DOMAIN q}

IsPrefix(a, b) == Len(a) <= Len(b) /\ SubSeq(b, 1, Len(a)) = a

Active == {r \in Runs : run[r].caller # "off"}

Failed(r) == run[r].pc = "Failed"

ClaimOrder ==
    <<"prepare", "upload", "inject_image", "inject_params", "resolve", "submit", "poll", "download">>

\* The steps of the fixed order that run r has entered, in the order it entered them.
StepsOf(r) == SelectSeq(run[r].trace, LAMBDA x : x \in Range(ClaimOrder))

\* C1: in every run of main and of predict the steps entered are a prefix of
\* prepare, upload, inject_image, inject_params, resolve, submit, poll,
\* download; a finished run has entered all of them; and a run that failed
\* failed in the last step it entered (no step follows a failure).
C1_FixedOrder ==
    \A r \in Active :
        /\ IsPrefix(StepsOf(r), ClaimOrder)
        /\ run[r].pc = "Done" => StepsOf(r) = ClaimOrder /\ run[r].err = ""
        /\ run[r].err # "" => Failed(r) /\ run[r].failedAt = run[r].trace[Len(run[r].trace)]
        /\ Failed(r) => run[r].err # ""

C1_Witness ==
    \E r \in Active : run[r].pc = "Done" /\ StepsOf(r) = ClaimOrder

\* await_completion has ended in run r: it returned, or it raised.
AwaitRaised(r) == Failed(r) /\ run[r].failedAt = "poll"

AwaitReturned(r) == "poll" \in Range(run[r].trace) /\ run[r].pc # "AwaitLoop" /\ ~AwaitRaised(r)

\* It returned a non-empty list whose artifacts all come from the first
\* response that held an artifact.
ReturnedFromFirst(r) ==
    /\ AwaitReturned(r)
    /\ run[r].images # <<>>
    /\ run[r].sawArt
    /\ Range(run[r].images) \subseteq Range(run[r].firstArt)

\* It raised TimeoutError, and no response so far held an artifact.
TimedOutEmpty(r) == AwaitRaised(r) /\ run[r].err = "TimeoutError" /\ ~run[r].sawArt

\* C2 as stated: await_completion ends in exactly one of two ways, a non-empty
\* list from the first response that held an artifact, or TimeoutError with no
\* artifact ever seen.
C2_TwoWays ==
    \A r \in Active :
        AwaitRaised(r) \/ AwaitReturned(r) => ReturnedFromFirst(r) \/ TimedOutEmpty(r)

\* C2 amended: await_completion ends in one of three ways: the non-empty list
\* from the first response that held an artifact, TimeoutError with no
\* artifact ever seen, or the exception of a pass of the loop (HTTPError for a
\* 4xx/5xx history response, a body that is not JSON, ValueError from
\* time.sleep of a negative interval); it never returns an empty list.
C2_ThreeWays ==
    \A r \in Active :
        /\ AwaitReturned(r) => ReturnedFromFirst(r)
        /\ AwaitRaised(r) =>
              \/ TimedOutEmpty(r)
              \/ run[r].err \in {"HTTPError", "JSONDecodeError", "ValueError"} /\ "poll" \in run[r].ops

C2_Witness ==
    \E r \in Active : run[r].pc = "Polled" /\ Len(run[r].images) < Len(run[r].firstArt)

\* C3: no history request is issued at or after the deadline, and with
\* timeout <= 0 no history request is issued at all.
C3_NoRequestAfterDeadline ==
    \A r \in Active :
        /\ ~run[r].lateReq
        /\ run[r].nonPosTimeout => "poll" \notin run[r].ops

C3_Witness ==
    \E r \in Active : run[r].err = "TimeoutError" /\ "poll" \in run[r].ops

\* C4: with interval >= 0, a run in the polling loop eventually raises
\* TimeoutError, unless the remote answers with something other than an empty
\* artifact list.
C4_PollingTerminates ==
    \A r \in Runs :
        (run[r].pc = "AwaitLoop" /\ run[r].interval >= 0)
            ~> (run[r].err = "TimeoutError" \/ run[r].sawOther)

C4_Witness ==
    \E r \in Active : run[r].err = "TimeoutError" /\ "poll" \in run[r].ops /\ ~run[r].sawOther

Fetched(r) == "download" \in Range(run[r].trace)

\* C5: a fetch issues one or two view requests; two exactly when the first
\* answer was 404 and the first request carried a type; the second request is
\* the first without its type; never a third.
C5_OneRetry ==
    \A r \in Active : Fetched(r) =>
        LET v == run[r].views
            a == run[r].viewResps
        IN  /\ Len(v) \in {1, 2} /\ Len(a) = Len(v)
            /\ Len(v) = 2 <=> (a[1].status = 404 /\ v[1].type # "")
            /\ Len(v) = 2 =>
                  /\ v[2].type = ""
                  /\ v[2].filename = v[1].filename
                  /\ v[2].subfolder = v[1].subfolder

C5_Witness ==
    \E r \in Active :
        /\ Fetched(r) /\ Len(run[r].views) = 2
        /\ run[r].viewResps[2].status = 404
        /\ run[r].views[1].subfolder # ""

\* The file the fetch of run r is to write, as the filesystem holds it.
FetchedFile(r) == fs[run[r].outDir].files[run[r].views[1].filename]

LastViewResp(r) == run[r].viewResps[Len(run[r].viewResps)]

\* C6 as stated: after a fetch the file outDir/filename has been written
\* exactly when the last view response was 2xx, with that response's body;
\* otherwise the fetch failed and wrote nothing.
C6_WrittenIff2xx ==
    \A r \in Active : Fetched(r) =>
        /\ FetchedFile(r).owner = r <=> Is2xx(LastViewResp(r).status)
        /\ FetchedFile(r).owner = r => FetchedFile(r).body = LastViewResp(r).content
        /\ ~Is2xx(LastViewResp(r).status) => Failed(r)

\* C7 as stated, for every step of two concurrent runs: a run's output
\* directory is empty when it has prepared it, holds only its own files when
\* it finishes, and no step of one run deletes or overwrites a file the other
\* wrote.
C7_ExclusiveOutputDir ==
    [][\A r \in Runs :
          /\ (run[r].pc # "Prepared" /\ run'[r].pc = "Prepared")
                => IsEmptyDir(fs'[run'[r].outDir])
          /\ (run[r].pc # "Done" /\ run'[r].pc = "Done")
                => \A n \in Names : fs'[run'[r].outDir].files[n].owner \in {-1, r}
          /\ \A d \in Dirs, n \in Names :
                (fs[d].files[n].owner = r /\ run'[r] = run[r])
                    => fs'[d].files[n] = fs[d].files[n]
      ]_vars

\* C8: a run that is done has written its output file; a run that failed
\* after preparing its output directory leaves it existing and empty.
C8_NoPartialSuccess ==
    \A r \in Active :
        /\ run[r].pc = "Done" =>
              /\ run[r].err = ""
              /\ fs[run[r].outDir].exists
              /\ fs[run[r].outDir].files[run[r].result].owner = r
        /\ (Failed(r) /\ "prepare" \in Range(run[r].trace)) => IsEmptyDir(fs[run[r].outDir])

C8_Witness ==
    \E r \in Active : Failed(r) /\ run[r].failedAt = "download" /\ IsEmptyDir(fs[run[r].outDir])

\* C9 as stated: a run that failed because the input file or the workflow
\* file is missing has issued no request.
C9_ValidatedBeforeNetwork ==
    \A r \in Active :
        run[r].err \in {"FileNotFoundError:input", "FileNotFoundError:workflow"}
            => run[r].ops = {}

\* C10 as stated: a non-2xx answer to an upload, submit or history request
\* has aborted the run, and no request follows it.
C10_AbortOnNon2xx ==
    \A r \in Active :
        /\ run[r].badResp => Failed(r)
        /\ ~run[r].reqAfterBad

(***************************************************************************)
(* Output-node discovery and the graph patches                             *)
(***************************************************************************)
SaverAt(wf) == {i \in DOMAIN wf : wf[i].class_type = "SaveImage"}

EmitterAt(wf) == {i \in DOMAIN wf : "IMAGE" \in wf[i].outputs}

LoaderAt(wf) == {i \in DOMAIN wf : wf[i].class_type = "LoadImage"}

\* id is the key of the earliest node of wf among the positions S.
IsFirstOf(wf, S, id) == \E i \in S : wf[i].id = id /\ \A j \in S : i <= j

\* C11: when the graph has a SaveImage node the node found is the first
\* SaveImage node in file order, also when an earlier node has an IMAGE
\* output; when it has none the node found is the first node with an IMAGE
\* output.  Stated of the function on every graph a run holds and of the
\* node a library run (which always consults the function) resolved.
C11_FirstSaverElseFirstEmitter ==
    \A r \in Active :
        LET wf == run[r].wf
            Expected(id) ==
                /\ SaverAt(wf) # {} => IsFirstOf(wf, SaverAt(wf), id)
                /\ SaverAt(wf) = {} /\ EmitterAt(wf) # {} => IsFirstOf(wf, EmitterAt(wf), id)
        IN  /\ wf # <<>> => Expected(find_output_node(wf))
            /\ run[r].pc = "Resolved" /\ run[r].caller = "predict" => Expected(run[r].outNode)

C11_Witness ==
    \E r \in Active :
        /\ run[r].pc = "Resolved" /\ run[r].caller = "predict"
        /\ Cardinality(SaverAt(run[r].wf)) = 2
        /\ \E i \in EmitterAt(run[r].wf) : \A j \in SaverAt(run[r].wf) : i < j
        /\ IsFirstOf(run[r].wf, SaverAt(run[r].wf), run[r].outNode)

NoOutput(wf) == SaverAt(wf) = {} /\ EmitterAt(wf) = {}

\* The submit request of run r, when that is the latest request it issued.
SubmitOf(r) == run[r].lastReq

HasSubmitted(r) == run[r].lastReq.op = "submit"

\* C12: on a graph with neither a SaveImage node nor an IMAGE output, a
\* library run (predict) fails at output resolution and issues no submit
\* request, and the top-level run (main) never fails there and submits with
\* the node id "40"; an explicit non-empty --output-node is taken as it is
\* and is what main submits.
C12_ResolutionPolicy ==
    \A r \in Active :
        /\ run[r].caller = "predict" =>
              /\ run[r].err = "RuntimeError:no_output" =>
                    run[r].failedAt = "resolve" /\ "submit" \notin run[r].ops
              /\ HasSubmitted(r) => ~NoOutput(SubmitOf(r).prompt)
              /\ run[r].pc = "Patched" /\ NoOutput(run[r].wf) =>
                    ResolveOutput("predict", "", run[r].wf) = NoNode
        /\ run[r].caller = "main" =>
              /\ run[r].err # "RuntimeError:no_output"
              /\ HasSubmitted(r) /\ NoOutput(SubmitOf(r).prompt) =>
                    SubmitOf(r).outputs \in {<<"40">>} \cup {<<a>> : a \in OutputNodeArgs("main") \ {""}}
              /\ run[r].pc = "Patched" =>
                    /\ \A a \in OutputNodeArgs("main") \ {""} :
                          ResolveOutput("main", a, run[r].wf) = a
                    /\ NoOutput(run[r].wf) => ResolveOutput("main", "", run[r].wf) = "40"
        /\ HasSubmitted(r) => Len(SubmitOf(r).outputs) = 1

C12_Witness ==
    \E r \in Active :
        /\ run[r].caller = "main" /\ run[r].pc = "Submitted"
        /\ HasSubmitted(r) /\ NoOutput(SubmitOf(r).prompt) /\ SubmitOf(r).outputs = <<"40">>

(***************************************************************************)
(* The artifacts await_completion returns                                  *)
(***************************************************************************)
OutputAt(a) == {i \in DOMAIN a : a[i].type = "output"}

\* The position in a of the k-th artifact tagged 'output'.
KthOutput(a, k) == CHOOSE i \in OutputAt(a) : Cardinality({j \in OutputAt(a) : j < i}) = k - 1

\* C13: the result of polling is taken from the first response that lists
\* any artifact: exactly its artifacts tagged 'output', in their order, when
\* there is one, else the whole list unchanged; and the artifact the run
\* asks /view for is the first 'output' one whenever there is one.
C13_OutputPreferred ==
    \A r \in Active :
        LET a == run[r].firstArt
            imgs == run[r].images
        IN  /\ run[r].pc = "Polled" =>
                  IF OutputAt(a) # {}
                  THEN /\ Len(imgs) = Cardinality(OutputAt(a))
                       /\ \A k \in DOMAIN imgs : imgs[k] = a[KthOutput(a, k)]
                  ELSE imgs = a /\ a # <<>>
            /\ run[r].views # <<>> /\ OutputAt(a) # {} =>
                  /\ run[r].views[1].type = "output"
                  /\ run[r].views[1].filename = a[KthOutput(a, 1)].filename
                  /\ run[r].views[1].subfolder = a[KthOutput(a, 1)].subfolder

C13_Witness ==
    \E r \in Active :
        /\ run[r].pc = "Done"
        /\ Len(run[r].firstArt) = 2 /\ OutputAt(run[r].firstArt) = {2}
        /\ run[r].views[1].type = "output"

(***************************************************************************)
(* inject_input_image                                                      *)
(***************************************************************************)
\* Node b is node a with its 'image' input set to f and nothing else changed.
SameButImage(a, b, f) ==
    /\ b.id = a.id /\ b.class_type = a.class_type /\ b.outputs = a.outputs
    /\ b.hasInputs /\ b.inputs["image"] = f
    /\ \A k \in Keys \ {"image"} : b.inputs[k] = a.inputs[k]

\* C14: the image-injection step never fails; it sets the 'image' input of
\* every LoadImage node to the upload name and changes nothing else in such
\* a node, leaves every other node and the sequence of node keys as they
\* were, and leaves a graph without a LoadImage node unchanged.
C14_ImageInjectionFrame ==
    [][\A r \in Runs :
          run[r].pc = "Loaded" /\ run'[r] # run[r] =>
              LET a == run[r].wf
                  b == run'[r].wf
              IN  /\ run'[r].pc = "ImageInjected"
                  /\ DOMAIN b = DOMAIN a
                  /\ \A i \in DOMAIN a :
                        IF i \in LoaderAt(a)
                        THEN SameButImage(a[i], b[i], run[r].uploadName)
                        ELSE b[i] = a[i]
                  /\ LoaderAt(a) = {} => b = a]_vars

C14_Witness ==
    \E r \in Active :
        /\ run[r].pc = "ImageInjected"
        /\ Cardinality(LoaderAt(run[r].wf)) = 2 /\ Len(run[r].wf) = 3
        /\ \A i \in LoaderAt(run[r].wf) : run[r].wf[i].inputs["image"] = run[r].uploadName
        /\ \E i \in DOMAIN run[r].wf : ~run[r].wf[i].hasInputs

\* C15 (as claimed): a run whose graph has no LoadImage node fails at the
\* image-injection step: it never holds such a graph past that step and
\* never submits one.
C15_FailFastWithoutLoader ==
    \A r \in Active :
        /\ run[r].wf # <<>> /\ LoaderAt(run[r].wf) = {} => run[r].pc = "Loaded"
        /\ HasSubmitted(r) => LoaderAt(SubmitOf(r).prompt) # {}

\* C15 (amended): no run fails at the image-injection step; on a graph
\* without a LoadImage node the step leaves the graph as it was loaded, and
\* the run goes on from there (it can reach the submit request).
C15_NoLoaderIsNoOp ==
    \A r \in Active :
        /\ run[r].failedAt # "inject_image"
        /\ run[r].pc = "ImageInjected" /\ LoaderAt(run[r].wf) = {} => run[r].wf \in RunGraphs

C15_Witness ==
    \E r \in Active :
        /\ run[r].pc = "Submitted" /\ HasSubmitted(r)
        /\ LoaderAt(SubmitOf(r).prompt) = {}
        /\ \A i \in DOMAIN SubmitOf(r).prompt : SubmitOf(r).prompt[i].inputs["image"] = NoVal

(***************************************************************************)
(* inject_parameters                                                       *)
(***************************************************************************)
NoiseTypes == {"RandomNoise", "RandomNoiseAdvanced"}

SamplerTypes == {"KSampler", "KSamplerAdvanced"}

\* C16: the parameter-injection step changes no node's key, type or
\* outputs and no node that is neither a noise source nor a sampler, and
\* with every parameter absent (as predict calls it) it leaves the graph
\* equal to the graph before, nodes without an inputs map included.
C16_ParametersFrame ==
    [][\A r \in Runs :
          run[r].pc = "ImageInjected" /\ run'[r] # run[r] =>
              LET a == run[r].wf
                  b == run'[r].wf
              IN  /\ DOMAIN b = DOMAIN a
                  /\ \A i \in DOMAIN a :
                        /\ b[i].id = a[i].id /\ b[i].class_type = a[i].class_type
                        /\ b[i].outputs = a[i].outputs
                        /\ a[i].class_type \notin NoiseTypes \cup SamplerTypes => b[i] = a[i]
                  /\ run[r].caller = "predict" => b = a]_vars

\* The parameter bundles a caller may ask for: each field given or absent.
ParamBundles ==
    [seed : {NoVal, "42"}, steps : {NoVal, "20"}, scale : {NoVal, "7.5"},
     sampler : {NoVal, "euler"}, scheduler : {NoVal, "karras"}]

\* The graph main 178 makes of wf for the bundle p.
Patched(wf, p) == inject_parameters(wf, p.seed, p.steps, p.scale, p.sampler)

\* Input k of node b is v when the node's type is in types and v is given,
\* and is what it was in node a otherwise.
RoutedTo(a, b, k, v, types) ==
    b.inputs[k] = IF a.class_type \in types /\ v # NoVal THEN v ELSE a.inputs[k]

C18_IdempotentAndCommuting ==
    \A r \in Active :
        run[r].wf # <<>> =>
            \A f \in {"u1_" \o InputName, "other.png"} : \A p \in ParamBundles :
                LET w == run[r].wf
                IN  /\ inject_input_image(inject_input_image(w, f), f) = inject_input_image(w, f)
                    /\ Patched(Patched(w, p), p) = Patched(w, p)
                    /\ Patched(inject_input_image(w, f), p) = inject_input_image(Patched(w, p), f)

\* A run has injected the image and then the parameters into a graph with a
\* LoadImage node that had inputs and a sampler node that had none.
C18_Witness ==
    \E r \in Active :
        /\ run[r].caller = "main" /\ run[r].pc = "Patched"
        /\ \E i, j \in DOMAIN run[r].wf :
              /\ run[r].wf[i].class_type = "LoadImage" /\ run[r].wf[i].outputs = {"IMAGE"}
              /\ run[r].wf[i].inputs["image"] = run[r].uploadName
              /\ run[r].wf[j].class_type = "KSampler" /\ run[r].wf[j].inputs["num_steps"] = "20"

(***************************************************************************)
(* prepare_output_dir and queue_workflow                                   *)
(***************************************************************************)
\* C19: from every state of the filesystem (the directory missing, empty,
\* or holding files) prepare_output_dir leaves the directory existing and
\* empty and touches no other directory, a second call in a row leaves it
\* existing and empty again, and a run that has just prepared its output
\* directory holds an existing, empty one.
C19_PrepareIdempotent ==
    /\ \A d \in Dirs :
          LET once == prepare_output_dir(fs, d)
              twice == prepare_output_dir(once, d)
          IN  /\ IsEmptyDir(once[d]) /\ IsEmptyDir(twice[d])
              /\ \A e \in Dirs \ {d} : once[e] = fs[e] /\ twice[e] = fs[e]
    /\ \A r \in Active : run[r].pc = "Prepared" => IsEmptyDir(fs[run[r].outDir])

\* A run has prepared a directory that held a file before (the other
\* directory, which started in the same state, still holds it).
C19_Witness ==
    \E r \in Active :
        /\ run[r].pc = "Prepared" /\ IsEmptyDir(fs[run[r].outDir])
        /\ \E e \in Dirs \ {run[r].outDir} : fs[e] = StaleDir

\* C20: a submit response that is 2xx and carries prompt_id or id makes the
\* run go on with the job id prompt_id when that is present and id only
\* when it is not; every other response (not 2xx, or neither field) fails
\* the run at submit with no job id and no poll request.
C20_JobIdOrFailure ==
    \A r \in Active :
        LET q == run[r].submitResp
            present == q.body.json /\ (q.body.prompt_id # "" \/ q.body.id # "")
        IN  q # NoResponse =>
                IF Is2xx(q.status) /\ present
                THEN /\ run[r].pc = "Submitted"
                     /\ run[r].jobId = IF q.body.prompt_id # "" THEN q.body.prompt_id ELSE q.body.id
                ELSE /\ run[r].pc = "Failed" /\ run[r].failedAt = "submit"
                     /\ run[r].jobId = "" /\ "poll" \notin run[r].ops

(***************************************************************************)
(* One name, one graph, one job from upload to poll                        *)
(***************************************************************************)
\* The graphs a run of caller c may hold after both patches, for the upload
\* name n.
PatchedGraphs(c, n) ==
    {inject_parameters(inject_input_image(g, n), p.seed, p.steps, p.scale, p.sampler) :
        g \in RunGraphs, p \in ParamsOf(c)}

\* What holds of run r in a state.
SameNameInState(r) ==
    LET q == run[r].lastReq
    IN  /\ q.op = "upload" => q.name = run[r].uploadName /\ q.name # ""
        /\ run[r].pc = "Resolved" => run[r].wf \in PatchedGraphs(run[r].caller, run[r].uploadName)
        /\ q.op = "submit" =>
              /\ q.prompt \in PatchedGraphs(run[r].caller, run[r].uploadName)
              /\ \A i \in LoaderAt(q.prompt) : q.prompt[i].inputs["image"] = run[r].uploadName
              /\ Len(q.outputs) = 1
        /\ q.op = "poll" => q.job = run[r].jobId /\ q.job # ""
        /\ run[r].pc = "Submitted" =>
              run[r].jobId \in {run[r].submitResp.body.prompt_id, run[r].submitResp.body.id} \ {""}

\* What holds of every step of run r: the submit request carries the graph
\* and the output node the run held, and neither the upload name nor the
\* job id changes once set.
SameNameInStep(r) ==
    /\ run[r].pc = "Resolved" /\ run'[r] # run[r] =>
          /\ run'[r].lastReq.op = "submit"
          /\ run'[r].lastReq.prompt = run[r].wf
          /\ run'[r].lastReq.outputs = <<run[r].outNode>>
    /\ run[r].uploadName # "" => run'[r].uploadName = run[r].uploadName
    /\ run[r].jobId # "" => run'[r].jobId = run[r].jobId

\* C21: in one run the name written into every LoadImage node of the
\* submitted graph is the name the image was uploaded under, the graph
\* posted is the graph after both patches, the posted outputs list is
\* exactly the resolved node id, and the job polled is the job the
\* submission returned.
C21_SameNameEndToEnd ==
    /\ [](\A r \in Active : SameNameInState(r))
    /\ [][\A r \in Runs : SameNameInStep(r)]_vars

C21_Witness ==
    \E r \in Active :
        /\ run[r].caller = "main" /\ run[r].pc = "Submitted" /\ HasSubmitted(r)
        /\ run[r].jobId = "i1" /\ SubmitOf(r).outputs = <<"4">>
        /\ \E i \in LoaderAt(SubmitOf(r).prompt) :
              SubmitOf(r).prompt[i].inputs["image"] = "u1_in.png"
        /\ \E i \in DOMAIN SubmitOf(r).prompt : SubmitOf(r).prompt[i].inputs["noise_seed"] = "42"

(***************************************************************************)
(* The readiness probe of Predictor.setup                                  *)
(***************************************************************************)
\* What holds of setup r in a state.
ProbeSafe(r) ==
    /\ run[r].pc = "Ready" =>
          run[r].saw200 /\ run[r].probe = [raised |-> FALSE, status |-> 200]
    /\ run[r].pc = "Failed" =>
          /\ run[r].err = "RuntimeError:not_ready" /\ ~run[r].saw200
          /\ now >= run[r].deadline
    /\ ~run[r].lateReq

\* C22: setup returns only in a state where a probe was answered 200; it
\* fails only with RuntimeError, only once the deadline has passed and
\* without having seen a 200; no probe is made at or after the deadline;
\* and a setup in the probe loop eventually returns or raises, whether the
\* probes raise or are answered with another status.
C22_ProbeReturnsOn200OrTimesOut ==
    /\ [](\A r \in Active : ProbeSafe(r))
    /\ \A r \in Runs : (run[r].pc = "SetupLoop") ~> (run[r].pc \in {"Ready", "Failed"})

\* A setup has given up after at least one probe, the latest answered 500.
C22_Witness ==
    \E r \in Active :
        /\ run[r].caller = "setup" /\ run[r].pc = "Failed"
        /\ run[r].err = "RuntimeError:not_ready"
        /\ run[r].probe = [raised |-> FALSE, status |-> 500] /\ ~run[r].saw200

====
